---- MODULE Spec2Model ----
(***************************************************************************)
(* Life Under Inflation: the decision engine of src/src/script.js.        *)
(*                                                                         *)
(* Numbers.  Every value of the engine is a JavaScript number (an IEEE     *)
(* double).  A number is modelled as a record [t, v]: t = "fin" with v the *)
(* value as a fixed-point decimal with two fractional digits (v = value *  *)
(* 100, rounded to nearest after every multiplication and division, as a   *)
(* double is rounded after every operation), or one of the three special   *)
(* doubles NaN, +Infinity, -Infinity (v = 0).  Signed zero is not          *)
(* distinguished: no operation of the engine divides by a computed zero    *)
(* other than the run count.                                               *)
(***************************************************************************)
EXTENDS Integers, Sequences, FiniteSets, TLC

VARIABLES
    simState,   \* the state object handed to updateEconomy / applyAction
    call,       \* the last call of the exported API: what was called, how it ended
    ncalls,     \* number of API calls made so far
    fc,         \* forecastSurvival: its locals and loop position
    cb,         \* chooseBestAction: its locals and loop position
    sim,        \* runSimulation: its locals and loop position
    rng,        \* Math.random(): the values it is going to return
    DEFAULT_STATE,  \* the module-wide default state of script.js
    twin,       \* a second runSimulation call, given the same samples
    app,        \* the App component of App.jsx: its state, refs and timer
    algo        \* the script of algo.js: its variables and loop position

vars == <<simState, call, ncalls, fc, cb, sim, rng, DEFAULT_STATE, twin,
          app, algo>>

----------------------------------------------------------------------------
(* Bounds of the model *)

\* calls of updateEconomy / applyAction made on one state object
MaxCalls == 3

----------------------------------------------------------------------------
(* Numbers *)

Scale == 10 * 10

Fin(n) == [t |-> "fin", v |-> n]
NaN == [t |-> "nan", v |-> 0]
PInf == [t |-> "pinf", v |-> 0]
NInf == [t |-> "ninf", v |-> 0]

IsFin(a) == a.t = "fin"
IsNaN(a) == a.t = "nan"

\* -1, 0, 1 for negative, zero, positive; never applied to NaN
Sign(a) ==
    CASE a.t = "pinf" -> 1
      [] a.t = "ninf" -> -1
      [] OTHER -> IF a.v > 0 THEN 1 ELSE IF a.v < 0 THEN -1 ELSE 0

\* n / d rounded to nearest, d > 0
RoundDiv(n, d) == (2 * n + d) \div (2 * d)

Neg(a) ==
    CASE a.t = "fin" -> Fin(0 - a.v)
      [] a.t = "pinf" -> NInf
      [] a.t = "ninf" -> PInf
      [] OTHER -> NaN

\* a + b
Add(a, b) ==
    IF IsNaN(a) \/ IsNaN(b) THEN NaN
    ELSE IF IsFin(a) /\ IsFin(b) THEN Fin(a.v + b.v)
    ELSE IF IsFin(a) THEN b
    ELSE IF IsFin(b) THEN a
    ELSE IF a.t = b.t THEN a
    ELSE NaN

\* a - b
Sub(a, b) == Add(a, Neg(b))

\* a * b
Mul(a, b) ==
    IF IsNaN(a) \/ IsNaN(b) THEN NaN
    ELSE IF IsFin(a) /\ IsFin(b) THEN Fin(RoundDiv(a.v * b.v, Scale))
    ELSE IF Sign(a) * Sign(b) = 0 THEN NaN
    ELSE IF Sign(a) * Sign(b) > 0 THEN PInf
    ELSE NInf

\* a / b
Div(a, b) ==
    IF IsNaN(a) \/ IsNaN(b) THEN NaN
    ELSE IF IsFin(a) /\ IsFin(b) THEN
        IF b.v = 0 THEN (IF a.v = 0 THEN NaN ELSE IF a.v > 0 THEN PInf ELSE NInf)
        ELSE IF b.v > 0 THEN Fin(RoundDiv(a.v * Scale, b.v))
        ELSE Fin(0 - RoundDiv(a.v * Scale, 0 - b.v))
    ELSE IF IsFin(a) THEN Fin(0)
    ELSE IF ~IsFin(b) THEN NaN
    ELSE IF Sign(a) * (IF b.v < 0 THEN -1 ELSE 1) > 0 THEN PInf
    ELSE NInf

\* a > b; false when either is NaN
Gt(a, b) ==
    IF IsNaN(a) \/ IsNaN(b) THEN FALSE
    ELSE IF IsFin(a) /\ IsFin(b) THEN a.v > b.v
    ELSE IF a.t = b.t THEN FALSE
    ELSE a.t = "pinf" \/ b.t = "ninf"

\* a <= b; false when either is NaN
Leq(a, b) == ~IsNaN(a) /\ ~IsNaN(b) /\ ~Gt(a, b)

\* a >= b; false when either is NaN
Geq(a, b) == Leq(b, a)

\* Math.max(a, b): NaN when either is NaN
MathMax(a, b) ==
    IF IsNaN(a) \/ IsNaN(b) THEN NaN
    ELSE IF Gt(b, a) THEN b ELSE a

\* JSON.parse(JSON.stringify(x)) of a number: NaN and the infinities are
\* written as null, which every operator of the engine then reads as 0
JsonNumber(a) == IF IsFin(a) THEN a ELSE Fin(0)

----------------------------------------------------------------------------
(* The finance state *)

Fields == {"cash", "salary", "expenses", "inflation", "investment", "happiness"}

MkState(cash, salary, expenses, inflation, investment, happiness) ==
    [cash |-> Fin(cash), salary |-> Fin(salary), expenses |-> Fin(expenses),
     inflation |-> Fin(inflation), investment |-> Fin(investment),
     happiness |-> Fin(happiness)]

\* cash 10000, salary 3000, expenses 2500, inflation 0.05, investment 0,
\* happiness 100
ORIGINAL_DEFAULT_STATE == MkState(1000000, 300000, 250000, 5, 0, 10000)

\* JSON.parse(JSON.stringify(state)): every key of the object, copied
JsonClone(s) == [f \in DOMAIN s |-> JsonNumber(s[f])]

\* Object.assign(target, source): target with every key of source written
ObjectAssign(target, source) ==
    [k \in (DOMAIN target) \cup (DOMAIN source) |->
        IF k \in DOMAIN source THEN source[k] ELSE target[k]]

\* an object without keys
NoProps == [k \in {} |-> Fin(0)]

----------------------------------------------------------------------------
(* setDefaultState, getDefaultState, resetDefaultState *)

\* An argument of setDefaultState: its type, and its keys if it is an object
\* !updates
Falsy(updates) == updates.type \in {"null", "undefined"}

\* typeof updates
TypeOf(updates) == IF updates.type = "null" THEN "object" ELSE updates.type

\* DEFAULT_STATE after setDefaultState(updates)
setDefaultState(defaults, updates) ==
    IF Falsy(updates) \/ TypeOf(updates) # "object" THEN defaults
    ELSE ObjectAssign(defaults, updates.props)

\* the object getDefaultState() returns
getDefaultState(defaults) == JsonClone(defaults)

\* resetDefaultState that only assigns the original values
resetDefaultState_NoDelete(defaults) ==
    ObjectAssign(defaults, JsonClone(ORIGINAL_DEFAULT_STATE))

\* DEFAULT_STATE after resetDefaultState(): every key deleted, then the
\* original values assigned
resetDefaultState(defaults) ==
    LET emptied == [k \in (DOMAIN defaults) \ (DOMAIN defaults) |-> defaults[k]]
    IN ObjectAssign(emptied, JsonClone(ORIGINAL_DEFAULT_STATE))

----------------------------------------------------------------------------
(* randomNormal *)

\* The values z0 = sqrt(-2 ln u1) * cos(2 pi u2) the model draws: one
\* standard deviation either side of the mean, and the two values z0 takes
\* when Math.random() returns u1 = 0 (ln 0 = -Infinity).
Z0 == {Fin(0 - Scale), Fin(Scale), PInf, NInf}

\* Z0 and a z0 that rounds to 0: the sample falls on the mean
Z0WithMean == Z0 \cup {Fin(0)}

\* z0 * std + mean
randomNormal(z0, mean, std) == Add(Mul(z0, std), mean)

----------------------------------------------------------------------------
(* updateEconomy *)

\* updateEconomy adding to cash the number of calls made before: a result
\* that depends on more than the argument and the samples
updateEconomy_CountsCalls(s, z1, z2) ==
    LET inflation == MathMax(Add(s.inflation, randomNormal(z1, Fin(0), Fin(1))), Fin(0))
        expenses == Mul(s.expenses, Add(Fin(Scale), inflation))
        marketReturn == randomNormal(z2, Fin(5), Fin(10))
        cash1 == Add(s.cash, Mul(s.investment, marketReturn))
        cash2 == Add(cash1, Sub(s.salary, expenses))
    IN [s EXCEPT !.inflation = inflation, !.expenses = expenses,
                 !.cash = Add(cash2, Fin(ncalls * Scale))]

\* updateEconomy growing the expenses by the inflation before the shock
updateEconomy_StaleInflation(s, z1, z2) ==
    LET inflation == MathMax(Add(s.inflation, randomNormal(z1, Fin(0), Fin(1))), Fin(0))
        expenses == Mul(s.expenses, Add(Fin(Scale), s.inflation))
        marketReturn == randomNormal(z2, Fin(5), Fin(10))
        cash1 == Add(s.cash, Mul(s.investment, marketReturn))
        cash2 == Add(cash1, Sub(s.salary, expenses))
    IN [s EXCEPT !.inflation = inflation, !.expenses = expenses, !.cash = cash2]

\* z1, z2: the z0 of the first and of the second randomNormal call
updateEconomy(s, z1, z2) ==
    LET inflation == MathMax(Add(s.inflation, randomNormal(z1, Fin(0), Fin(1))), Fin(0))
        expenses == Mul(s.expenses, Add(Fin(Scale), inflation))
        marketReturn == randomNormal(z2, Fin(5), Fin(10))
        cash1 == Add(s.cash, Mul(s.investment, marketReturn))
        cash2 == Add(cash1, Sub(s.salary, expenses))
    IN [s EXCEPT !.inflation = inflation, !.expenses = expenses, !.cash = cash2]

----------------------------------------------------------------------------
(* applyAction *)

\* ACTIONS in the source (a reserved word of TLA+)
ACTION_IDS == <<"WORK_MORE", "CUT_EXPENSES", "INVEST", "UPS KILL", "DO_NOTHING">>

ActionSet == {ACTION_IDS[i] : i \in 1..Len(ACTION_IDS)}

applyAction(s, action) ==
    CASE action = "WORK_MORE" ->
            [s EXCEPT !.salary = Mul(s.salary, Fin(110)),
                      !.happiness = Sub(s.happiness, Fin(500))]
      [] action = "CUT_EXPENSES" ->
            [s EXCEPT !.expenses = Mul(s.expenses, Fin(85)),
                      !.happiness = Sub(s.happiness, Fin(1000))]
      [] action = "INVEST" ->
            LET investAmount == Mul(s.cash, Fin(30))
            IN [s EXCEPT !.cash = Sub(s.cash, investAmount),
                         !.investment = Add(s.investment, investAmount)]
      [] action = "UPS KILL" ->
            [s EXCEPT !.cash = Sub(s.cash, Fin(100000)),
                      !.salary = Mul(s.salary, Fin(120))]
      [] action = "DO_NOTHING" -> s
      [] OTHER -> s

----------------------------------------------------------------------------
(* Inputs of the model *)

\* States a caller hands to the exported functions: the default state; a
\* household close to bankruptcy (cash 500, salary 1000, expenses 2500); one
\* that holds an investment (cash 2000, investment 4000, inflation 0).
StateInputs ==
    { ORIGINAL_DEFAULT_STATE,
      MkState(50000, 100000, 250000, 5, 0, 10000),
      MkState(200000, 300000, 250000, 0, 400000, 10000) }

\* Action identifiers a caller can pass: the five of ACTION_IDS and two that
\* are not among them
ActionInputs == ActionSet \cup {"UPSKILL", "SELL"}

NoCall == [op |-> "none", action |-> "", pre |-> ORIGINAL_DEFAULT_STATE,
           z1 |-> Fin(0), z2 |-> Fin(0), outcome |-> "none"]

Idle == [pc |-> "idle"]

\* Math.random() is not followed: the samples are chosen call by call
NoRng == [tape |-> <<>>, pos |-> 0]

----------------------------------------------------------------------------
(* SpecEconomy: updateEconomy and applyAction called, in any order, on one *)
(* state object                                                            *)

InitEconomy ==
    /\ rng = NoRng
    /\ DEFAULT_STATE = ORIGINAL_DEFAULT_STATE
    /\ simState \in StateInputs
    /\ call = NoCall
    /\ ncalls = 0
    /\ fc = Idle
    /\ cb = Idle
    /\ sim = Idle
    /\ twin = Idle
    /\ app = Idle
    /\ algo = Idle

\* updateEconomy(simState): the function has no throw, it always returns
UpdateEconomyCall ==
    /\ ncalls < MaxCalls
    /\ \E z1 \in Z0WithMean, z2 \in Z0WithMean :
        /\ simState' = updateEconomy(simState, z1, z2)
        /\ call' = [op |-> "updateEconomy", action |-> "", pre |-> simState,
                    z1 |-> z1, z2 |-> z2, outcome |-> "returned"]
    /\ ncalls' = ncalls + 1
    /\ UNCHANGED <<fc, cb, sim, rng, DEFAULT_STATE, twin, app, algo>>

\* applyAction(simState, action): no case of the switch throws and there is
\* no default case, it always returns
ApplyActionCall ==
    /\ ncalls < MaxCalls
    /\ \E action \in ActionInputs :
        /\ simState' = applyAction(simState, action)
        /\ call' = [op |-> "applyAction", action |-> action, pre |-> simState,
                    z1 |-> Fin(0), z2 |-> Fin(0), outcome |-> "returned"]
    /\ ncalls' = ncalls + 1
    /\ UNCHANGED <<fc, cb, sim, rng, DEFAULT_STATE, twin, app, algo>>

NextEconomy == UpdateEconomyCall \/ ApplyActionCall

SpecEconomy == InitEconomy /\ [][NextEconomy]_vars

----------------------------------------------------------------------------
(* forecastSurvival *)

\* FORECAST_MONTHS = 6, the default of forecastSurvival's fourth parameter
FORECAST_MONTHS == 6

\* an entry of trial: what a statement of the trial loop did ("apply",
\* "update", or "counted" / "dropped" for the if after the inner loop) and
\* the scratch state it left
Did(ev, state) == [ev |-> ev, state |-> state]

\* the locals on entry: surviveCount = 0, totalCash = 0, i = 0
\* trial: what the trial in progress (or just ended) has done so far, kept
\* for the properties
fcEnter(currentState, action, runs, horizon) ==
    [pc |-> "trials", currentState |-> currentState, action |-> action,
     runs |-> runs, horizon |-> horizon, i |-> 0, m |-> 0,
     simState |-> currentState, surviveCount |-> 0, totalCash |-> Fin(0),
     ends |-> <<>>, trial |-> <<>>,
     result |-> [survivalProbability |-> Fin(0), expectedCash |-> Fin(0)]]

\* fcTrialBegin without the clone: simState is currentState itself, so what
\* applyAction writes is written to the caller's object
fcTrialBegin_NoClone(f) ==
    LET s == applyAction(f.currentState, f.action)
    IN [f EXCEPT !.pc = "months", !.m = 0, !.simState = s, !.currentState = s]

\* the trial starts on the scratch state s, the action applied
fcApplied(f, s) ==
    [f EXCEPT !.pc = "months", !.m = 0, !.simState = s,
              !.trial = <<Did("apply", s)>>]

\* for (i ...) { simState = clone(currentState); applyAction(simState, action);
\* currentState: the caller's object, simState: the object the clone built
fcTrialBegin(f) ==
    fcApplied(f, applyAction(JsonClone(f.currentState), f.action))

\* if (simState.cash <= 0) break; m++, on the scratch state s the economy
\* step left
fcUpdated(f, s) ==
    [f EXCEPT !.simState = s, !.trial = Append(f.trial, Did("update", s)),
              !.pc = IF Leq(s.cash, Fin(0)) THEN "classify" ELSE f.pc,
              !.m = IF Leq(s.cash, Fin(0)) THEN f.m ELSE f.m + 1]

\* for (m ...) { updateEconomy(simState); if (simState.cash <= 0) break; }
fcMonth(f, z1, z2) == fcUpdated(f, updateEconomy(f.simState, z1, z2))

\* fcTrialEnd counting a trial as surviving only if happiness is > 0 too
fcTrialEnd_HappySurvivors(f) ==
    LET survived == Gt(f.simState.cash, Fin(0)) /\ Gt(f.simState.happiness, Fin(0))
    IN [f EXCEPT !.pc = "trials", !.i = f.i + 1,
                 !.surviveCount = IF survived THEN f.surviveCount + 1 ELSE f.surviveCount,
                 !.totalCash = IF survived THEN Add(f.totalCash, f.simState.cash)
                               ELSE f.totalCash,
                 !.ends = Append(f.ends, f.simState.cash),
                 !.trial = Append(f.trial,
                                  Did(IF survived THEN "counted" ELSE "dropped",
                                      f.simState))]

\* if (simState.cash > 0) { surviveCount++; totalCash += simState.cash; } }
\* ends: the ending cash of every trial so far, kept for the properties
fcTrialEnd(f) ==
    LET survived == Gt(f.simState.cash, Fin(0))
    IN [f EXCEPT !.pc = "trials", !.i = f.i + 1,
                 !.surviveCount = IF survived THEN f.surviveCount + 1 ELSE f.surviveCount,
                 !.totalCash = IF survived THEN Add(f.totalCash, f.simState.cash)
                               ELSE f.totalCash,
                 !.ends = Append(f.ends, f.simState.cash),
                 !.trial = Append(f.trial,
                                  Did(IF survived THEN "counted" ELSE "dropped",
                                      f.simState))]

\* fcResult dividing by surviveCount itself, without "|| 1"
fcResult_NoGuard(f) ==
    [survivalProbability |-> Div(Fin(f.surviveCount * Scale), Fin(f.runs * Scale)),
     expectedCash |-> Div(f.totalCash, Fin(f.surviveCount * Scale))]

\* { survivalProbability: surviveCount / MONTE_CARLO_RUNS,
\*   expectedCash: totalCash / (surviveCount || 1) }
fcResult(f) ==
    [survivalProbability |-> Div(Fin(f.surviveCount * Scale), Fin(f.runs * Scale)),
     expectedCash |-> Div(f.totalCash,
                          Fin((IF f.surviveCount = 0 THEN 1 ELSE f.surviveCount) * Scale))]

fcReturn(f) == [f EXCEPT !.pc = "done", !.result = fcResult(f)]

\* where the loops stand
fcAtTrialBegin(f) == f.pc = "trials" /\ f.i < f.runs
fcAtMonth(f) == f.pc = "months" /\ f.m < f.horizon
fcAtTrialEnd(f) == f.pc = "classify" \/ (f.pc = "months" /\ ~(f.m < f.horizon))
fcAtReturn(f) == f.pc = "trials" /\ ~(f.i < f.runs)

----------------------------------------------------------------------------
(* SpecForecast: one forecastSurvival call, statement by statement *)

\* largest run count passed to forecastSurvival, chooseBestAction and
\* runSimulation
MaxRuns == 2

\* run counts passed: a negative one, none, and up to MaxRuns
RunsInputs == (0 - 1)..MaxRuns

\* horizons passed to forecastSurvival: a negative one, none, one month, two
HorizonInputs == {0 - 1, 0, 1, 2}

InitForecast ==
    /\ rng = NoRng
    /\ DEFAULT_STATE = ORIGINAL_DEFAULT_STATE
    /\ simState = ORIGINAL_DEFAULT_STATE
    /\ call = NoCall
    /\ ncalls = 0
    /\ fc = Idle
    /\ cb = Idle
    /\ sim = Idle
    /\ twin = Idle
    /\ app = Idle
    /\ algo = Idle

\* forecastSurvival(currentState, action, runs, horizon) is entered; nothing
\* checks the arguments
ForecastCall ==
    /\ fc.pc = "idle"
    /\ \E currentState \in StateInputs, action \in ActionSet,
          runs \in RunsInputs, horizon \in HorizonInputs :
        /\ fc' = fcEnter(currentState, action, runs, horizon)
        /\ simState' = currentState
    /\ UNCHANGED <<call, ncalls, cb, sim, rng, DEFAULT_STATE, twin, app, algo>>

ForecastTrialBegin ==
    /\ fc.pc # "idle"
    /\ fcAtTrialBegin(fc)
    /\ fc' = fcTrialBegin(fc)
    /\ UNCHANGED <<simState, call, ncalls, cb, sim, rng, DEFAULT_STATE,
                   twin, app, algo>>

ForecastMonth ==
    /\ fc.pc # "idle"
    /\ fcAtMonth(fc)
    /\ \E z1 \in Z0, z2 \in Z0 : fc' = fcMonth(fc, z1, z2)
    /\ UNCHANGED <<simState, call, ncalls, cb, sim, rng, DEFAULT_STATE,
                   twin, app, algo>>

ForecastTrialEnd ==
    /\ fc.pc # "idle"
    /\ fcAtTrialEnd(fc)
    /\ fc' = fcTrialEnd(fc)
    /\ UNCHANGED <<simState, call, ncalls, cb, sim, rng, DEFAULT_STATE,
                   twin, app, algo>>

\* the return statement: the function has no throw
ForecastReturn ==
    /\ fc.pc # "idle"
    /\ fcAtReturn(fc)
    /\ fc' = fcReturn(fc)
    /\ call' = [NoCall EXCEPT !.op = "forecastSurvival", !.action = fc.action,
                              !.pre = fc.currentState, !.outcome = "returned"]
    /\ UNCHANGED <<simState, ncalls, cb, sim, rng, DEFAULT_STATE,
                   twin, app, algo>>

NextForecast ==
    \/ ForecastCall
    \/ ForecastTrialBegin
    \/ ForecastMonth
    \/ ForecastTrialEnd
    \/ ForecastReturn

SpecForecast == InitForecast /\ [][NextForecast]_vars

----------------------------------------------------------------------------
(* Math.random() followed through a whole call *)

\* length of the sequence of z0 values Math.random() yields (read cyclically)
TapeLen == 3

Tapes == [1..TapeLen -> Z0]

\* the z0 of the next randomNormal call
Draw(r) == r.tape[r.pos + 1]

Advance(r) == [r EXCEPT !.pos = (r.pos + 1) % Len(r.tape)]

\* forecastSurvival run to its return statement: [f, rng]
RECURSIVE fcRun(_, _)
fcRun(f, r) ==
    IF fcAtTrialBegin(f) THEN fcRun(fcTrialBegin(f), r)
    ELSE IF fcAtMonth(f)
         THEN fcRun(fcMonth(f, Draw(r), Draw(Advance(r))), Advance(Advance(r)))
    ELSE IF fcAtTrialEnd(f) THEN fcRun(fcTrialEnd(f), r)
    ELSE [f |-> fcReturn(f), rng |-> r]

forecastSurvival(currentState, action, runs, horizon, r) ==
    fcRun(fcEnter(currentState, action, runs, horizon), r)

----------------------------------------------------------------------------
(* calculateUtility *)

\* w1 * survivalProbability + w2 * (expectedCash / 10000), w1 = 0.6, w2 = 0.4
calculateUtility(result) ==
    Add(Mul(Fin(60), result.survivalProbability),
        Mul(Fin(40), Div(result.expectedCash, Fin(10000 * Scale))))

----------------------------------------------------------------------------
(* chooseBestAction *)

\* bestAction = null; bestScore = -Infinity
cbEnter(currentState, monteCarloRuns) ==
    [pc |-> "loop", currentState |-> currentState,
     monteCarloRuns |-> monteCarloRuns, k |-> 1,
     bestAction |-> "null", bestScore |-> NInf,
     utils |-> <<>>, forecasts |-> <<>>, result |-> "null"]

\* cbImproves with >= for >
cbImproves_OrEqual(utility, bestScore) == Geq(utility, bestScore)

\* if (utility > bestScore)
cbImproves(utility, bestScore) == Gt(utility, bestScore)

\* one turn of for (let action of actions): [c, rng]
\* currentState is handed to forecastSurvival by reference: it is afterwards
\* what forecastSurvival left of it
\* utils, forecasts: the utility computed and the forecast got for each
\* action so far, kept for the properties
cbIter(c, r) ==
    LET action == ACTION_IDS[c.k]
        run == forecastSurvival(c.currentState, action, c.monteCarloRuns,
                                FORECAST_MONTHS, r)
        utility == calculateUtility(run.f.result)
        better == cbImproves(utility, c.bestScore)
    IN [c |-> [c EXCEPT !.k = c.k + 1,
                        !.currentState = run.f.currentState,
                        !.bestScore = IF better THEN utility ELSE c.bestScore,
                        !.bestAction = IF better THEN action ELSE c.bestAction,
                        !.utils = Append(c.utils, utility),
                        !.forecasts = Append(c.forecasts, run.f.result)],
        rng |-> run.rng]

\* return bestAction
cbReturn(c) == [c EXCEPT !.pc = "done", !.result = c.bestAction]

cbAtIter(c) == c.pc = "loop" /\ c.k <= Len(ACTION_IDS)
cbAtReturn(c) == c.pc = "loop" /\ ~(c.k <= Len(ACTION_IDS))

----------------------------------------------------------------------------
(* SpecChoose: one chooseBestAction call, one action of the list at a time *)

InitChoose ==
    /\ rng \in [tape : Tapes, pos : {0}]
    /\ DEFAULT_STATE = ORIGINAL_DEFAULT_STATE
    /\ simState = ORIGINAL_DEFAULT_STATE
    /\ call = NoCall
    /\ ncalls = 0
    /\ fc = Idle
    /\ cb = Idle
    /\ sim = Idle
    /\ twin = Idle
    /\ app = Idle
    /\ algo = Idle

\* chooseBestAction(currentState, monteCarloRuns) is entered; nothing checks
\* the arguments
ChooseCall ==
    /\ cb.pc = "idle"
    /\ \E currentState \in StateInputs, runs \in RunsInputs :
        /\ cb' = cbEnter(currentState, runs)
        /\ simState' = currentState
    /\ UNCHANGED <<call, ncalls, fc, sim, rng, DEFAULT_STATE, twin, app, algo>>

ChooseIter ==
    /\ cb.pc # "idle"
    /\ cbAtIter(cb)
    /\ LET next == cbIter(cb, rng)
       IN cb' = next.c /\ rng' = next.rng
    /\ UNCHANGED <<simState, call, ncalls, fc, sim, DEFAULT_STATE,
                   twin, app, algo>>

\* the return statement: the function has no throw
ChooseReturn ==
    /\ cb.pc # "idle"
    /\ cbAtReturn(cb)
    /\ cb' = cbReturn(cb)
    /\ call' = [NoCall EXCEPT !.op = "chooseBestAction", !.pre = cb.currentState,
                              !.outcome = "returned"]
    /\ UNCHANGED <<simState, ncalls, fc, sim, rng, DEFAULT_STATE,
                   twin, app, algo>>

NextChoose == ChooseCall \/ ChooseIter \/ ChooseReturn

SpecChoose == InitChoose /\ [][NextChoose]_vars

----------------------------------------------------------------------------
(* runSimulation *)

\* simEnter without the clone: state is initialState || DEFAULT_STATE itself
simEnter_NoClone(months, monteCarloRuns, initialState, defaultState) ==
    LET source == IF initialState = <<>> THEN defaultState ELSE initialState[1]
    IN [pc |-> "select", months |-> months, monteCarloRuns |-> monteCarloRuns,
        state |-> source, omitted |-> initialState = <<>>, shared |-> TRUE,
        entry |-> source, log |-> <<>>,
        history |-> <<>>, month |-> 1, bestAction |-> "null"]

\* initialState: <<>> when the caller gives none, else <<state>>
\* state = JSON.parse(JSON.stringify(initialState || DEFAULT_STATE));
\* history = []; month = 1
\* omitted: the object cloned is DEFAULT_STATE; shared: state is the very
\* object it was made from (never, the clone is a new object); entry: the
\* object cloned as it was on entry, and log: what the loop has done so far,
\* both kept for the properties
simEnter(months, monteCarloRuns, initialState, defaultState) ==
    LET source == IF initialState = <<>> THEN defaultState ELSE initialState[1]
    IN [pc |-> "select", months |-> months, monteCarloRuns |-> monteCarloRuns,
        state |-> JsonClone(source), omitted |-> initialState = <<>>,
        shared |-> FALSE, entry |-> source, log |-> <<>>,
        history |-> <<>>, month |-> 1, bestAction |-> "null"]

\* an entry of log: what was done, in which month, with which action, and
\* the state it was done on (select) or left (apply, update, append)
Done(ev, month, action, state) ==
    [ev |-> ev, month |-> month, action |-> action, state |-> state]

\* chooseBestAction(state, monteCarloRuns) is called
simSelect(s) == [s EXCEPT !.pc = "selecting"]

\* const bestAction = <what chooseBestAction returned>; state was handed to
\* chooseBestAction by reference: it is what chooseBestAction left of it
simSelected(s, c) ==
    [s EXCEPT !.pc = "apply", !.bestAction = c.result, !.state = c.currentState,
              !.log = Append(s.log, Done("select", s.month, c.result, s.state))]

\* simApply applying the action twice
simApply_Twice(s) ==
    LET once == applyAction(s.state, s.bestAction)
        twice == applyAction(once, s.bestAction)
    IN [s EXCEPT !.pc = "update", !.state = twice,
                 !.log = s.log \o <<Done("apply", s.month, s.bestAction, once),
                                    Done("apply", s.month, s.bestAction, twice)>>]

\* applyAction(state, bestAction)
simApply(s) ==
    LET state == applyAction(s.state, s.bestAction)
    IN [s EXCEPT !.pc = "update", !.state = state,
                 !.log = Append(s.log, Done("apply", s.month, s.bestAction, state))]

\* updateEconomy(state)
simUpdate(s, z1, z2) ==
    LET state == updateEconomy(s.state, z1, z2)
    IN [s EXCEPT !.pc = "record", !.state = state,
                 !.log = Append(s.log, Done("update", s.month, s.bestAction, state))]

\* the snapshot pushed on history
Snapshot(month, action, state) ==
    [month |-> month, action |-> action, cash |-> state.cash,
     salary |-> state.salary, expenses |-> state.expenses,
     inflation |-> state.inflation, investment |-> state.investment,
     happiness |-> state.happiness]

\* simRecord without the break on bankruptcy
simRecord_NoBreak(s) ==
    [s EXCEPT !.history = Append(s.history, Snapshot(s.month, s.bestAction, s.state)),
              !.log = Append(s.log, Done("append", s.month, s.bestAction, s.state)),
              !.pc = "select", !.month = s.month + 1]

\* history.push({...}); if (state.cash <= 0) break; month++
simRecord(s) ==
    LET history == Append(s.history, Snapshot(s.month, s.bestAction, s.state))
        log == Append(s.log, Done("append", s.month, s.bestAction, s.state))
    IN IF Leq(s.state.cash, Fin(0))
       THEN [s EXCEPT !.history = history, !.log = log, !.pc = "return"]
       ELSE [s EXCEPT !.history = history, !.log = log, !.pc = "select",
                      !.month = s.month + 1]

\* return history
simReturn(s) == [s EXCEPT !.pc = "done"]

simAtSelect(s) == s.pc = "select" /\ s.month <= s.months
simAtReturn(s) == s.pc = "return" \/ (s.pc = "select" /\ ~(s.month <= s.months))

----------------------------------------------------------------------------
(* SpecSim: one runSimulation call, statement by statement *)

\* largest number of months passed in this specification
MaxMonths == 3

MonthsInputs == (0 - 1)..MaxMonths

\* States passed as initialState: those of StateInputs other than the
\* default one (a call without initialState starts from it), and a household
\* in debt (cash -1000, salary 800, expenses 0, investment 0)
InitialStateInputs ==
    (StateInputs \ {ORIGINAL_DEFAULT_STATE})
        \cup { MkState(0 - 1000 * Scale, 800 * Scale, 0, 5, 0, 100 * Scale) }

InitSim ==
    /\ rng \in [tape : Tapes, pos : {0}]
    /\ DEFAULT_STATE = ORIGINAL_DEFAULT_STATE
    /\ simState = ORIGINAL_DEFAULT_STATE
    /\ call = NoCall
    /\ ncalls = 0
    /\ fc = Idle
    /\ cb = Idle
    /\ sim = Idle
    /\ twin = Idle
    /\ app = Idle
    /\ algo = Idle

\* runSimulation({months, monteCarloRuns, initialState}) is entered; nothing
\* checks the arguments
RunSimulationCall ==
    /\ sim.pc = "idle"
    /\ \E months \in MonthsInputs, runs \in RunsInputs,
          initialState \in {<<>>} \cup {<<s>> : s \in InitialStateInputs} :
        /\ sim' = simEnter(months, runs, initialState, DEFAULT_STATE)
        /\ simState' = IF initialState = <<>> THEN DEFAULT_STATE
                       ELSE initialState[1]
    /\ UNCHANGED <<call, ncalls, fc, cb, rng, DEFAULT_STATE, twin, app, algo>>

\* a statement has written to state: the caller's initialState and
\* DEFAULT_STATE are other objects than state and keep their values
SimWritesState ==
    /\ simState' = IF sim'.shared /\ ~sim'.omitted THEN sim'.state ELSE simState
    /\ DEFAULT_STATE' = IF sim'.shared /\ sim'.omitted THEN sim'.state
                        ELSE DEFAULT_STATE

\* the loop body starts: chooseBestAction is entered with the current state
SimSelect ==
    /\ sim.pc # "idle"
    /\ simAtSelect(sim)
    /\ sim' = simSelect(sim)
    /\ cb' = cbEnter(sim.state, sim.monteCarloRuns)
    /\ UNCHANGED <<simState, call, ncalls, fc, rng, DEFAULT_STATE,
                   twin, app, algo>>

\* chooseBestAction has returned (ChooseIter five times, then ChooseReturn)
SimSelected ==
    /\ sim.pc = "selecting"
    /\ cb.pc = "done"
    /\ sim' = simSelected(sim, cb)
    /\ cb' = Idle
    /\ SimWritesState
    /\ UNCHANGED <<call, ncalls, fc, rng, twin, app, algo>>

SimApply ==
    /\ sim.pc = "apply"
    /\ sim' = simApply(sim)
    /\ SimWritesState
    /\ UNCHANGED <<call, ncalls, fc, cb, rng, twin, app, algo>>

SimUpdate ==
    /\ sim.pc = "update"
    /\ sim' = simUpdate(sim, Draw(rng), Draw(Advance(rng)))
    /\ rng' = Advance(Advance(rng))
    /\ SimWritesState
    /\ UNCHANGED <<call, ncalls, fc, cb, twin, app, algo>>

SimRecord ==
    /\ sim.pc = "record"
    /\ sim' = simRecord(sim)
    /\ UNCHANGED <<simState, call, ncalls, fc, cb, rng, DEFAULT_STATE,
                   twin, app, algo>>

\* the return statement: the function has no throw
SimReturn ==
    /\ sim.pc # "idle"
    /\ simAtReturn(sim)
    /\ sim' = simReturn(sim)
    /\ call' = [NoCall EXCEPT !.op = "runSimulation", !.pre = simState,
                              !.outcome = "returned"]
    /\ UNCHANGED <<simState, ncalls, fc, cb, rng, DEFAULT_STATE,
                   twin, app, algo>>

NextSim ==
    \/ RunSimulationCall
    \/ SimSelect
    \/ ChooseIter
    \/ ChooseReturn
    \/ SimSelected
    \/ SimApply
    \/ SimUpdate
    \/ SimRecord
    \/ SimReturn

SpecSim == InitSim /\ [][NextSim]_vars

----------------------------------------------------------------------------
(* SpecTwin: two runSimulation calls side by side, on states that differ in *)
(* happiness only, Math.random() returning the same values to both         *)

\* A runSimulation call with the chooseBestAction call it has in progress
\* and the samples it has left: [sim, cb, rng].  The next statement of the
\* call, as SimSelect .. SimReturn of SpecSim take it.
simStep(m) ==
    IF m.sim.pc = "selecting"
    THEN IF cbAtIter(m.cb)
         THEN LET next == cbIter(m.cb, m.rng)
              IN [m EXCEPT !.cb = next.c, !.rng = next.rng]
         ELSE IF cbAtReturn(m.cb) THEN [m EXCEPT !.cb = cbReturn(m.cb)]
         ELSE [m EXCEPT !.sim = simSelected(m.sim, m.cb), !.cb = Idle]
    ELSE IF simAtSelect(m.sim)
    THEN [m EXCEPT !.sim = simSelect(m.sim),
                   !.cb = cbEnter(m.sim.state, m.sim.monteCarloRuns)]
    ELSE IF m.sim.pc = "apply" THEN [m EXCEPT !.sim = simApply(m.sim)]
    ELSE IF m.sim.pc = "update"
    THEN [m EXCEPT !.sim = simUpdate(m.sim, Draw(m.rng), Draw(Advance(m.rng))),
                   !.rng = Advance(Advance(m.rng))]
    ELSE IF m.sim.pc = "record" THEN [m EXCEPT !.sim = simRecord(m.sim)]
    ELSE IF simAtReturn(m.sim) THEN [m EXCEPT !.sim = simReturn(m.sim)]
    ELSE m

\* the happiness of the second state: 0, where the first has 100
TwinHappinessInputs == {Fin(0)}

\* months and run counts passed to both calls
TwinMonthsInputs == {1, 2}
TwinRunsInputs == {1, 2}

InitTwin ==
    /\ rng \in [tape : Tapes, pos : {0}]
    /\ DEFAULT_STATE = ORIGINAL_DEFAULT_STATE
    /\ simState = ORIGINAL_DEFAULT_STATE
    /\ call = NoCall
    /\ ncalls = 0
    /\ fc = Idle
    /\ cb = Idle
    /\ sim = Idle
    /\ twin = Idle
    /\ app = Idle
    /\ algo = Idle

\* runSimulation({months, monteCarloRuns, initialState}) is entered twice,
\* the second time on initialState with another happiness
TwinCall ==
    /\ sim.pc = "idle"
    /\ \E months \in TwinMonthsInputs, runs \in TwinRunsInputs,
          initialState \in InitialStateInputs, happiness \in TwinHappinessInputs :
        /\ sim' = simEnter(months, runs, <<initialState>>, DEFAULT_STATE)
        /\ twin' = [sim |-> simEnter(months, runs,
                                     <<[initialState EXCEPT !.happiness = happiness]>>,
                                     DEFAULT_STATE),
                    cb |-> Idle, rng |-> rng]
        /\ simState' = initialState
    /\ UNCHANGED <<call, ncalls, fc, cb, rng, DEFAULT_STATE, app, algo>>

\* both calls take their next statement
TwinStep ==
    /\ sim.pc # "idle"
    /\ ~(sim.pc = "done" /\ twin.sim.pc = "done")
    /\ LET next == simStep([sim |-> sim, cb |-> cb, rng |-> rng])
       IN sim' = next.sim /\ cb' = next.cb /\ rng' = next.rng
    /\ twin' = simStep(twin)
    /\ UNCHANGED <<simState, call, ncalls, fc, DEFAULT_STATE, app, algo>>

NextTwin == TwinCall \/ TwinStep

SpecTwin == InitTwin /\ [][NextTwin]_vars

----------------------------------------------------------------------------
(* SpecDefaults: the default state set, read, reset and used by runSimulation *)

\* Arguments passed to setDefaultState: two fields of the template
\* (cash 20000, inflation 0.02), a field (cash 500) with a key the template
\* does not have, null, a number
UpdatesInputs ==
    { [type |-> "object", props |-> [cash |-> Fin(20000 * Scale), inflation |-> Fin(2)]],
      [type |-> "object", props |-> [cash |-> Fin(500 * Scale), debt |-> Fin(500 * Scale)]],
      [type |-> "null", props |-> NoProps],
      [type |-> "number", props |-> NoProps] }

\* What a caller writes to the copy getDefaultState returned: nothing, or
\* cash = 0 and a key of its own
CopyWrites == { NoProps, [cash |-> Fin(0), note |-> Fin(Scale)] }

\* months passed to runSimulation in this specification
DefaultsMonthsInputs == {1, 2}

InitDefaults ==
    /\ rng \in [tape : Tapes, pos : {0}]
    /\ DEFAULT_STATE = ORIGINAL_DEFAULT_STATE
    /\ simState = ORIGINAL_DEFAULT_STATE
    /\ call = NoCall
    /\ ncalls = 0
    /\ fc = Idle
    /\ cb = Idle
    /\ sim = Idle
    /\ twin = Idle
    /\ app = Idle
    /\ algo = Idle

\* no runSimulation call is in progress
NotSimulating == sim.pc \in {"idle", "done"}

SetDefaultStateCall ==
    /\ NotSimulating
    /\ ncalls < MaxCalls
    /\ \E updates \in UpdatesInputs :
        DEFAULT_STATE' = setDefaultState(DEFAULT_STATE, updates)
    /\ call' = [NoCall EXCEPT !.op = "setDefaultState", !.pre = DEFAULT_STATE,
                              !.outcome = "returned"]
    /\ ncalls' = ncalls + 1
    /\ UNCHANGED <<simState, fc, cb, sim, rng, twin, app, algo>>

\* the caller gets a copy, simState, and writes to it
GetDefaultStateCall ==
    /\ NotSimulating
    /\ ncalls < MaxCalls
    /\ \E written \in CopyWrites :
        simState' = ObjectAssign(getDefaultState(DEFAULT_STATE), written)
    /\ call' = [NoCall EXCEPT !.op = "getDefaultState", !.pre = DEFAULT_STATE,
                              !.outcome = "returned"]
    /\ ncalls' = ncalls + 1
    /\ UNCHANGED <<fc, cb, sim, rng, DEFAULT_STATE, twin, app, algo>>

ResetDefaultStateCall ==
    /\ NotSimulating
    /\ ncalls < MaxCalls
    /\ DEFAULT_STATE' = resetDefaultState(DEFAULT_STATE)
    /\ call' = [NoCall EXCEPT !.op = "resetDefaultState", !.pre = DEFAULT_STATE,
                              !.outcome = "returned"]
    /\ ncalls' = ncalls + 1
    /\ UNCHANGED <<simState, fc, cb, sim, rng, twin, app, algo>>

\* runSimulation({months, monteCarloRuns: 1}): no initialState, the run
\* starts from DEFAULT_STATE
RunDefaultSimulationCall ==
    /\ NotSimulating
    /\ ncalls < MaxCalls
    /\ \E months \in DefaultsMonthsInputs :
        sim' = simEnter(months, 1, <<>>, DEFAULT_STATE)
    /\ ncalls' = ncalls + 1
    /\ UNCHANGED <<simState, call, fc, cb, rng, DEFAULT_STATE, twin, app, algo>>

NextDefaults ==
    \/ SetDefaultStateCall
    \/ GetDefaultStateCall
    \/ ResetDefaultStateCall
    \/ RunDefaultSimulationCall
    \/ SimSelect
    \/ ChooseIter
    \/ ChooseReturn
    \/ SimSelected
    \/ SimApply
    \/ SimUpdate
    \/ SimRecord
    \/ SimReturn

SpecDefaults == InitDefaults /\ [][NextDefaults]_vars

----------------------------------------------------------------------------
(* App.jsx: the interactive stepper of the App component *)

\* resetSim(initialState): initialState is <<>> when the caller gives none
\* simStateRef.current = JSON.parse(JSON.stringify(initialState || DEFAULT_STATE));
\* monthRef.current = 0; setHistory([]); setCurrentIndex(-1);
\* setIsPlaying(false); the interval, if any, is cleared and forgotten
resetSim(a, initialState, defaultState) ==
    LET source == IF initialState = <<>> THEN defaultState ELSE initialState[1]
    IN [a EXCEPT !.simStateRef = JsonClone(source), !.monthRef = 0,
                 !.history = <<>>, !.currentIndex = 0 - 1,
                 !.isPlaying = FALSE, !.intervalRef = "null"]

\* The play / pause effect, run after a render in which isPlaying differs
\* from the render before (speedMs, runs and months are not changed by the
\* events followed here): the cleanup of the previous run clears its
\* interval, then a new interval is set if isPlaying, else the reference is
\* cleared.  before: the component as the previous render saw it.
playEffect(before, a) ==
    IF a.isPlaying = before.isPlaying THEN a
    ELSE [a EXCEPT !.intervalRef = IF a.isPlaying THEN "interval" ELSE "null"]

\* stepOnce up to the first forecast: simStateRef.current is set since the
\* mount effect ran resetSim, so the first if does nothing;
\* stateClone = JSON.parse(JSON.stringify(simStateRef.current))
stepBegin(a) ==
    [a EXCEPT !.pc = "forecasts", !.stateClone = JsonClone(a.simStateRef),
              !.forecasts = <<>>, !.k = 1]

\* one element of ACTIONS.map(...): [a, rng]
\* f = forecastSurvival(stateClone, action, runs);
\* { action, ...f, utility: calculateUtility(f) }
stepForecast(a, r) ==
    LET action == ACTION_IDS[a.k]
        run == forecastSurvival(a.stateClone, action, a.runs, FORECAST_MONTHS, r)
        f == run.f.result
    IN [a |-> [a EXCEPT !.k = a.k + 1,
                        !.stateClone = run.f.currentState,
                        !.forecasts = Append(a.forecasts,
                            [action |-> action,
                             survivalProbability |-> f.survivalProbability,
                             expectedCash |-> f.expectedCash,
                             utility |-> calculateUtility(f)])],
        rng |-> run.rng]

\* const best = chooseBestAction(simStateRef.current, runs) is called
stepChoose(a) == [a EXCEPT !.pc = "choosing"]

\* the snapshot stepOnce appends to history
StepSnapshot(month, action, state, forecasts) ==
    [month |-> month, action |-> action, cash |-> state.cash,
     salary |-> state.salary, expenses |-> state.expenses,
     inflation |-> state.inflation, investment |-> state.investment,
     happiness |-> state.happiness, forecasts |-> forecasts]

\* the stop conditions of stepOnce
stepStops(state, month, months) ==
    Leq(state.cash, Fin(0)) \/ month >= months

\* stepOnce from the return of chooseBestAction (c: the call as it returned;
\* simStateRef.current was handed to it by reference):
\* applyAction(simStateRef.current, best); updateEconomy(simStateRef.current);
\* monthRef.current += 1; setHistory(h => [...h, snapshot]) with
\* setCurrentIndex(next.length - 1); if a stop condition holds,
\* setIsPlaying(false) and the interval is cleared and forgotten
stepFinish(a, c, z1, z2) ==
    LET state == updateEconomy(applyAction(c.currentState, c.result), z1, z2)
        month == a.monthRef + 1
        next == Append(a.history, StepSnapshot(month, c.result, state, a.forecasts))
        stop == stepStops(state, month, a.months)
    IN [a EXCEPT !.pc = "ready", !.simStateRef = state, !.monthRef = month,
                 !.history = next, !.currentIndex = Len(next) - 1,
                 !.isPlaying = IF stop THEN FALSE ELSE a.isPlaying,
                 !.intervalRef = IF stop THEN "null" ELSE a.intervalRef]

\* the component after its mount effects: useState initial values, and
\* resetSim() run by the last effect
appMounted(months, runs, defaultState) ==
    resetSim([pc |-> "ready", months |-> months, runs |-> runs,
              isPlaying |-> FALSE, simStateRef |-> defaultState,
              monthRef |-> 0, intervalRef |-> "null", history |-> <<>>,
              currentIndex |-> 0 - 1, stateClone |-> defaultState,
              forecasts |-> <<>>, k |-> 1],
             <<>>, defaultState)

----------------------------------------------------------------------------
(* SpecStepper: Play, Pause, Step, Reset and the ticks of the interval *)

\* largest number of snapshots the stepper's history is followed to
MaxSnapshots == 3

\* length of the sequence of z0 values Math.random() yields to the stepper
\* (read cyclically): a length that does not divide the number of samples
\* one pass over the five actions takes
StepperTapeLen == 7

\* samples of ordinary size only: z0 = -1 throughout, or z0 = 1 at one
\* place of the sequence and -1 elsewhere
StepperTapes ==
    { [k \in 1..StepperTapeLen |-> IF k = i THEN Fin(Scale) ELSE Fin(0 - Scale)] :
        i \in 0..StepperTapeLen }

\* values of the Months and Monte Carlo runs fields
StepperMonthsInputs == {1, 2}
StepperRunsInputs == {1}

\* defaults saved in localStorage, loaded by the first mount effect: none,
\* or those of a household close to bankruptcy
SavedDefaultsInputs ==
    { ORIGINAL_DEFAULT_STATE, MkState(50000, 100000, 250000, 5, 0, 10000) }

InitStepper ==
    /\ rng \in [tape : StepperTapes, pos : {0}]
    /\ DEFAULT_STATE \in SavedDefaultsInputs
    /\ simState = ORIGINAL_DEFAULT_STATE
    /\ call = NoCall
    /\ ncalls = 0
    /\ fc = Idle
    /\ cb = Idle
    /\ sim = Idle
    /\ twin = Idle
    /\ app \in {appMounted(months, runs, DEFAULT_STATE) :
                    months \in StepperMonthsInputs, runs \in StepperRunsInputs}
    /\ algo = Idle

\* an event is handled when the handler of the previous one has finished:
\* the continuations of the async stepOnce are microtasks, they run before
\* the next click or tick is dispatched
AppReady == app.pc = "ready"

\* Play: handleStartAnimation = resetSim(); setIsPlaying(true)
HandleStartAnimation ==
    /\ AppReady
    /\ app' = playEffect(app, [resetSim(app, <<>>, DEFAULT_STATE)
                                 EXCEPT !.isPlaying = TRUE])
    /\ UNCHANGED <<simState, call, ncalls, fc, cb, sim, rng, DEFAULT_STATE,
                   twin, algo>>

\* Pause: onClick = setIsPlaying(false)
HandlePause ==
    /\ AppReady
    /\ app' = playEffect(app, [app EXCEPT !.isPlaying = FALSE])
    /\ UNCHANGED <<simState, call, ncalls, fc, cb, sim, rng, DEFAULT_STATE,
                   twin, algo>>

\* Reset: handleReset = resetSim()
HandleReset ==
    /\ AppReady
    /\ app' = playEffect(app, resetSim(app, <<>>, DEFAULT_STATE))
    /\ UNCHANGED <<simState, call, ncalls, fc, cb, sim, rng, DEFAULT_STATE,
                   twin, algo>>

\* Step: handleStep = stepOnce() (simStateRef.current is set); nothing looks
\* at the month reached or at cash
HandleStep ==
    /\ AppReady
    /\ Len(app.history) < MaxSnapshots
    /\ app' = stepBegin(app)
    /\ UNCHANGED <<simState, call, ncalls, fc, cb, sim, rng, DEFAULT_STATE,
                   twin, algo>>

\* the interval fires: stepOnce()
TimerTick ==
    /\ AppReady
    /\ app.intervalRef = "interval"
    /\ Len(app.history) < MaxSnapshots
    /\ app' = stepBegin(app)
    /\ UNCHANGED <<simState, call, ncalls, fc, cb, sim, rng, DEFAULT_STATE,
                   twin, algo>>

StepForecast ==
    /\ app.pc = "forecasts"
    /\ app.k <= Len(ACTION_IDS)
    /\ LET next == stepForecast(app, rng)
       IN app' = next.a /\ rng' = next.rng
    /\ UNCHANGED <<simState, call, ncalls, fc, cb, sim, DEFAULT_STATE,
                   twin, algo>>

\* Promise.all has resolved; chooseBestAction is entered
StepChoose ==
    /\ app.pc = "forecasts"
    /\ ~(app.k <= Len(ACTION_IDS))
    /\ app' = stepChoose(app)
    /\ cb' = cbEnter(app.simStateRef, app.runs)
    /\ UNCHANGED <<simState, call, ncalls, fc, sim, rng, DEFAULT_STATE,
                   twin, algo>>

\* chooseBestAction has returned (ChooseIter five times, then ChooseReturn)
StepFinish ==
    /\ app.pc = "choosing"
    /\ cb.pc = "done"
    /\ app' = playEffect(app, stepFinish(app, cb, Draw(rng), Draw(Advance(rng))))
    /\ rng' = Advance(Advance(rng))
    /\ cb' = Idle
    /\ UNCHANGED <<simState, call, ncalls, fc, sim, DEFAULT_STATE, twin, algo>>

NextStepper ==
    \/ HandleStartAnimation
    \/ HandlePause
    \/ HandleReset
    \/ HandleStep
    \/ TimerTick
    \/ StepForecast
    \/ StepChoose
    \/ ChooseIter
    \/ ChooseReturn
    \/ StepFinish

SpecStepper == InitStepper /\ [][NextStepper]_vars

----------------------------------------------------------------------------
(* algo.js: the Node.js script, translated from its own text *)

\* let state = { cash: 10000, salary: 3000, expenses: 2500, inflation: 0.05,
\*               investment: 0, happiness: 100 }
algo_state ==
    [cash |-> Fin(10000 * Scale), salary |-> Fin(3000 * Scale),
     expenses |-> Fin(2500 * Scale), inflation |-> Fin(5),
     investment |-> Fin(0), happiness |-> Fin(100 * Scale)]

\* const FORECAST_MONTHS = 6
algo_FORECAST_MONTHS == 6

\* return z0 * std + mean
algo_randomNormal(z0, mean, std) == Add(Mul(z0, std), mean)

\* simState.inflation += randomNormal(0, 0.01)
algo_shock(s, z1) ==
    [s EXCEPT !.inflation = Add(@, algo_randomNormal(z1, Fin(0), Fin(1)))]

\* simState.inflation = Math.max(simState.inflation, 0)
algo_floor(s) == [s EXCEPT !.inflation = MathMax(@, Fin(0))]

\* simState.expenses *= (1 + simState.inflation)
algo_grow(s) == [s EXCEPT !.expenses = Mul(@, Add(Fin(Scale), s.inflation))]

\* simState.cash += simState.investment * marketReturn
algo_return(s, marketReturn) ==
    [s EXCEPT !.cash = Add(@, Mul(s.investment, marketReturn))]

\* simState.cash += simState.salary - simState.expenses
algo_cashFlow(s) == [s EXCEPT !.cash = Add(@, Sub(s.salary, s.expenses))]

\* updateEconomy of algo.js with the expenses grown before the inflation
\* shock
algo_updateEconomy_ExpensesFirst(s, z1, z2) ==
    algo_cashFlow(algo_return(algo_floor(algo_shock(algo_grow(s), z1)),
                              algo_randomNormal(z2, Fin(5), Fin(10))))

\* updateEconomy of algo.js, one statement after the other
algo_updateEconomy(s, z1, z2) ==
    algo_cashFlow(algo_return(algo_grow(algo_floor(algo_shock(s, z1))),
                              algo_randomNormal(z2, Fin(5), Fin(10))))

\* applyAction of algo.js: a switch without a default case
algo_applyAction(s, action) ==
    IF action = "WORK_MORE"
    THEN [s EXCEPT !.salary = Mul(@, Fin(110)),
                   !.happiness = Sub(@, Fin(5 * Scale))]
    ELSE IF action = "CUT_EXPENSES"
    THEN [s EXCEPT !.expenses = Mul(@, Fin(85)),
                   !.happiness = Sub(@, Fin(10 * Scale))]
    ELSE IF action = "INVEST"
    THEN LET investAmount == Mul(s.cash, Fin(30))
         IN [s EXCEPT !.cash = Sub(@, investAmount),
                      !.investment = Add(@, investAmount)]
    ELSE IF action = "UPS KILL"
    THEN [s EXCEPT !.cash = Sub(@, Fin(1000 * Scale)),
                   !.salary = Mul(@, Fin(120))]
    ELSE s

\* the inner loop of forecastSurvival of algo.js from month m on, s being
\* the scratch state and stepped telling whether an economy step has just
\* been made on it: [simState, rng]
RECURSIVE algo_forecastMonths(_, _, _, _)
algo_forecastMonths(s, stepped, m, r) ==
    IF stepped /\ Leq(s.cash, Fin(0))
    THEN \* if (simState.cash <= 0) break
         [simState |-> s, rng |-> r]
    ELSE IF m < algo_FORECAST_MONTHS
    THEN algo_forecastMonths(algo_updateEconomy(s, Draw(r), Draw(Advance(r))),
                             TRUE, m + 1, Advance(Advance(r)))
    ELSE [simState |-> s, rng |-> r]

\* surviveCount and totalCash after the if that follows the inner loop
algo_surviveCount(surviveCount, cash) ==
    IF Gt(cash, Fin(0)) THEN surviveCount + 1 ELSE surviveCount

algo_totalCash(totalCash, cash) ==
    IF Gt(cash, Fin(0)) THEN Add(totalCash, cash) ELSE totalCash

\* the return statement of forecastSurvival of algo.js
algo_forecastResult(runs, surviveCount, totalCash) ==
    [survivalProbability |-> Div(Fin(surviveCount * Scale), Fin(runs * Scale)),
     expectedCash |->
         Div(totalCash, Fin((IF surviveCount # 0 THEN surviveCount ELSE 1) * Scale))]

\* the outer loop of forecastSurvival of algo.js from trial i on, and its
\* return statement: [result, rng].  trial: <<>>, or the inner loop of
\* trial i as it ended.
RECURSIVE algo_forecastTrials(_, _, _, _, _, _, _, _)
algo_forecastTrials(currentState, action, runs, i, surviveCount, totalCash, trial, r) ==
    IF trial # <<>>
    THEN algo_forecastTrials(currentState, action, runs, i + 1,
             algo_surviveCount(surviveCount, trial[1].simState.cash),
             algo_totalCash(totalCash, trial[1].simState.cash),
             <<>>, trial[1].rng)
    ELSE IF i < runs
    THEN algo_forecastTrials(currentState, action, runs, i, surviveCount, totalCash,
             <<algo_forecastMonths(algo_applyAction(JsonClone(currentState), action),
                                   FALSE, 0, r)>>,
             r)
    ELSE [result |-> algo_forecastResult(runs, surviveCount, totalCash), rng |-> r]

\* forecastSurvival(currentState, action) of algo.js; runs: MONTE_CARLO_RUNS
algo_forecastSurvival(currentState, action, runs, r) ==
    algo_forecastTrials(currentState, action, runs, 0, 0, Fin(0), <<>>, r)

\* (w1 * result.survivalProbability) + (w2 * (result.expectedCash / 10000))
algo_calculateUtility(result) ==
    LET w1 == Fin(60)
        w2 == Fin(40)
    IN Add(Mul(w1, result.survivalProbability),
           Mul(w2, Div(result.expectedCash, Fin(10000 * Scale))))

\* const actions = [...] of chooseBestAction of algo.js
algo_actions == <<"WORK_MORE", "CUT_EXPENSES", "INVEST", "UPS KILL", "DO_NOTHING">>

\* The script from its first statement.  MONTHS_TO_SIMULATE and
\* MONTE_CARLO_RUNS are 24 and 100 in algo.js; the script is followed with
\* the values given here in their place.  printed: what the script has
\* printed for each month (the month, the action chosen, the state), kept
\* for the properties.
algoEnter(MONTHS_TO_SIMULATE, MONTE_CARLO_RUNS, r) ==
    [pc |-> "loop", MONTHS_TO_SIMULATE |-> MONTHS_TO_SIMULATE,
     MONTE_CARLO_RUNS |-> MONTE_CARLO_RUNS, state |-> algo_state, month |-> 1,
     k |-> 1, bestAction |-> "null", bestScore |-> NInf, chosen |-> "null",
     printed |-> <<>>, rng |-> r]

\* one turn of for (let action of actions), forecast being what
\* forecastSurvival(currentState, action) returned and the samples left:
\* utility = calculateUtility(forecast);
\* if (utility > bestScore) { bestScore = utility; bestAction = action; }
algoScored(g, action, forecast) ==
    IF Gt(algo_calculateUtility(forecast.result), g.bestScore)
    THEN [g EXCEPT !.k = g.k + 1, !.rng = forecast.rng,
                   !.bestScore = algo_calculateUtility(forecast.result),
                   !.bestAction = action]
    ELSE [g EXCEPT !.k = g.k + 1, !.rng = forecast.rng]

\* the next statement of the script
algoStep(g) ==
    IF g.pc = "loop"
    THEN \* for (month ...) { chooseBestAction(state) is entered
         IF g.month <= g.MONTHS_TO_SIMULATE
         THEN [g EXCEPT !.pc = "choose", !.k = 1, !.bestAction = "null",
                        !.bestScore = NInf]
         ELSE [g EXCEPT !.pc = "done"]
    ELSE IF g.pc = "choose"
    THEN \* for (let action of actions) { ... } return bestAction
         IF g.k <= Len(algo_actions)
         THEN algoScored(g, algo_actions[g.k],
                         algo_forecastSurvival(g.state, algo_actions[g.k],
                                               g.MONTE_CARLO_RUNS, g.rng))
         ELSE [g EXCEPT !.pc = "chosen"]
    ELSE IF g.pc = "chosen"
    THEN \* const bestAction = chooseBestAction(state)
         [g EXCEPT !.pc = "apply", !.chosen = g.bestAction]
    ELSE IF g.pc = "apply"
    THEN [g EXCEPT !.pc = "update", !.state = algo_applyAction(g.state, g.chosen)]
    ELSE IF g.pc = "update"
    THEN [g EXCEPT !.pc = "print",
                   !.state = algo_updateEconomy(g.state, Draw(g.rng),
                                                Draw(Advance(g.rng))),
                   !.rng = Advance(Advance(g.rng))]
    ELSE IF g.pc = "print"
    THEN \* console.log(...); if (state.cash <= 0) { ...; break; } month++
         LET printed == Append(g.printed, [month |-> g.month, action |-> g.chosen,
                                           state |-> g.state])
         IN IF Leq(g.state.cash, Fin(0))
            THEN [g EXCEPT !.pc = "break", !.printed = printed]
            ELSE [g EXCEPT !.pc = "loop", !.printed = printed,
                           !.month = g.month + 1]
    ELSE IF g.pc = "break" THEN [g EXCEPT !.pc = "done"]
    ELSE g

----------------------------------------------------------------------------
(* SpecAlgo: algo.js and runSimulation of script.js side by side,          *)
(* Math.random() returning the same values to both                         *)

\* the values MONTHS_TO_SIMULATE / months and MONTE_CARLO_RUNS /
\* monteCarloRuns are given in both
AlgoMonthsInputs == {1, 2, 3}
AlgoRunsInputs == {1, 2}

\* the sequences Math.random() yields to both: those of Tapes, those of
\* StepperTapes, and those with one infinite z0 among values of -1
AlgoTapes ==
    Tapes \cup StepperTapes \cup
    { [k \in 1..StepperTapeLen |-> IF k = i THEN PInf ELSE Fin(0 - Scale)] :
        i \in 1..StepperTapeLen }

InitAlgo ==
    /\ rng \in [tape : AlgoTapes, pos : {0}]
    /\ DEFAULT_STATE = ORIGINAL_DEFAULT_STATE
    /\ simState = ORIGINAL_DEFAULT_STATE
    /\ call = NoCall
    /\ ncalls = 0
    /\ fc = Idle
    /\ cb = Idle
    /\ sim = Idle
    /\ twin = Idle
    /\ app = Idle
    /\ algo = Idle

\* node algo.js is started and runSimulation({months, monteCarloRuns}) is
\* entered, DEFAULT_STATE being as script.js defines it
AlgoStart ==
    /\ sim.pc = "idle"
    /\ \E months \in AlgoMonthsInputs, runs \in AlgoRunsInputs :
        /\ sim' = simEnter(months, runs, <<>>, DEFAULT_STATE)
        /\ algo' = algoEnter(months, runs, rng)
    /\ UNCHANGED <<simState, call, ncalls, fc, cb, rng, DEFAULT_STATE, twin, app>>

\* both take their next statement
AlgoStep ==
    /\ sim.pc # "idle"
    /\ ~(sim.pc = "done" /\ algo.pc = "done")
    /\ LET next == simStep([sim |-> sim, cb |-> cb, rng |-> rng])
       IN sim' = next.sim /\ cb' = next.cb /\ rng' = next.rng
    /\ algo' = algoStep(algo)
    /\ UNCHANGED <<simState, call, ncalls, fc, DEFAULT_STATE, twin, app>>

NextAlgo == AlgoStart \/ AlgoStep

SpecAlgo == InitAlgo /\ [][NextAlgo]_vars

----------------------------------------------------------------------------
(* Properties *)

Zero == Fin(0)
One == Fin(Scale)

\* C1: immediately after any updateEconomy call the state's inflation is
\* >= 0, whatever the inflation before the call and whatever shock is sampled
C1_InflationNonNegative ==
    call.op = "updateEconomy" => Geq(simState.inflation, Zero)

\* C1, the case the code keeps: entered with a finite inflation, the
\* inflation after updateEconomy is >= 0 whatever the shock
C1_InflationNonNegativeFromFinite ==
    (call.op = "updateEconomy" /\ IsFin(call.pre.inflation))
        => Geq(simState.inflation, Zero)

\* the snapshots of a history whose cash is <= 0
Bankrupt(history) == {i \in 1..Len(history) : Leq(history[i].cash, Zero)}

\* C2: the history runSimulation returns has length <= months, and an entry
\* whose cash is <= 0 is its last entry
C2_HistoryTermination ==
    sim.pc = "done" =>
        /\ Len(sim.history) <= sim.months
        /\ \A i \in Bankrupt(sim.history) : i = Len(sim.history)

\* C2, the case the code keeps: for months >= 0 the length is <= months, and
\* for every months a bankrupt entry is the last one
C2_HistoryTerminationFromZeroMonths ==
    sim.pc = "done" =>
        /\ sim.months >= 0 => Len(sim.history) <= sim.months
        /\ \A i \in Bankrupt(sim.history) : i = Len(sim.history)

\* C3 as stated: for months >= 1 the returned history is shorter than months
\* if and only if some snapshot has cash <= 0 (read here for calls with at
\* least one Monte Carlo run)
C3_ShorterIffBankrupt ==
    (sim.pc = "done" /\ sim.months >= 1 /\ sim.monteCarloRuns >= 1) =>
        (Len(sim.history) < sim.months <=> Bankrupt(sim.history) # {})

\* C3 amended: for months >= 1 the returned history is shorter than months
\* if and only if some snapshot of a month before the last one has cash <= 0
C3_ShorterIffBankruptBeforeLastMonth ==
    (sim.pc = "done" /\ sim.months >= 1) =>
        (Len(sim.history) < sim.months
            <=> \E i \in Bankrupt(sim.history) : sim.history[i].month < sim.months)

\* C3 witness: a run of at least two months that bankruptcy ended early
C3_EarlyStop_Witness ==
    /\ sim.pc = "done"
    /\ sim.months >= 2
    /\ Len(sim.history) >= 1
    /\ Len(sim.history) < sim.months
    /\ Bankrupt(sim.history) # {}

\* C4: the survivalProbability forecastSurvival returns is in [0, 1]
C4_SurvivalProbabilityBounds ==
    call.op = "forecastSurvival" =>
        /\ Leq(Zero, fc.result.survivalProbability)
        /\ Leq(fc.result.survivalProbability, One)

\* the trials of a forecast that ended with cash > 0
Survivors(ends) == {i \in 1..Len(ends) : Gt(ends[i], Zero)}

\* the ending cash of the surviving trials among the first n, summed in order
RECURSIVE SurvivingCash(_, _)
SurvivingCash(ends, n) ==
    IF n = 0 THEN Zero
    ELSE IF Gt(ends[n], Zero) THEN Add(SurvivingCash(ends, n - 1), ends[n])
    ELSE SurvivingCash(ends, n - 1)

\* C5: with no surviving trial the expectedCash returned is exactly 0; with
\* at least one it is the ending cash summed over the surviving trials,
\* divided by their number
C5_ExpectedCash ==
    call.op = "forecastSurvival" =>
        IF Survivors(fc.ends) = {}
        THEN fc.result.expectedCash = Zero
        ELSE fc.result.expectedCash =
                Div(SurvivingCash(fc.ends, Len(fc.ends)),
                    Fin(Cardinality(Survivors(fc.ends)) * Scale))

\* C5 witness: a forecast of two trials returned, none of them surviving
C5_NoSurvivor_Witness ==
    /\ call.op = "forecastSurvival"
    /\ Len(fc.ends) = 2
    /\ Survivors(fc.ends) = {}
    /\ fc.result.expectedCash = Zero

\* a and b are numerically identical
Same(a, b) == ~IsNaN(a) /\ ~IsNaN(b) /\ a = b

\* the utility at position i is >= every utility of the call
Greatest(utils, i) == \A j \in 1..Len(utils) : Geq(utils[i], utils[j])

\* the first position holding the utility of position i
First(utils, i) == CHOOSE j \in 1..i :
    /\ Same(utils[j], utils[i])
    /\ \A h \in 1..(j - 1) : ~Same(utils[h], utils[i])

\* C6: when two or more actions obtain the same greatest utility in one
\* chooseBestAction call, the call returns the first of them in the order
\* of the action list
C6_TieBreak ==
    cb.pc = "done" =>
        \A i \in 1..Len(cb.utils) :
            (/\ Greatest(cb.utils, i)
             /\ \E j \in 1..Len(cb.utils) : j # i /\ Same(cb.utils[j], cb.utils[i]))
                => cb.result = ACTION_IDS[First(cb.utils, i)]

\* C6 witness: a call returned whose greatest utility is shared by two
\* actions, neither of them the first of the list
C6_Tie_Witness ==
    /\ cb.pc = "done"
    /\ \E i, j \in 2..Len(cb.utils) :
        /\ i < j
        /\ Greatest(cb.utils, i)
        /\ Same(cb.utils[i], cb.utils[j])
        /\ ~Greatest(cb.utils, 1)
        /\ cb.result = ACTION_IDS[i]

\* the position of an action in the list, 0 if it is not in it
IndexOf(action) ==
    IF action \in ActionSet
    THEN CHOOSE i \in 1..Len(ACTION_IDS) : ACTION_IDS[i] = action
    ELSE 0

\* C7: chooseBestAction returns one of the five actions, and the utility of
\* the action returned is >= the utility computed for every other action
C7_ReturnsBestAction ==
    cb.pc = "done" =>
        /\ cb.result \in ActionSet
        /\ Greatest(cb.utils, IndexOf(cb.result))

\* C7, the case the code keeps: with at least one run
C7_ReturnsBestActionWithRuns ==
    (cb.pc = "done" /\ cb.monteCarloRuns # 0) =>
        /\ cb.result \in ActionSet
        /\ Greatest(cb.utils, IndexOf(cb.result))

\* C8: forecastSurvival with runs <= 0 or a horizon < 0, and runSimulation
\* with months <= 0 or monteCarloRuns <= 0, end with an InvalidConfiguration
\* error and return nothing
C8_InvalidConfigurationRaised ==
    /\ (call.op = "forecastSurvival" /\ (fc.runs <= 0 \/ fc.horizon < 0))
        => call.outcome = "InvalidConfiguration"
    /\ (call.op = "runSimulation" /\ (sim.months <= 0 \/ sim.monteCarloRuns <= 0))
        => call.outcome = "InvalidConfiguration"

\* C9: applyAction with an identifier outside the five actions ends with an
\* InvalidAction error, it does not return
C9_UnknownActionRaised ==
    (call.op = "applyAction" /\ call.action \notin ActionSet)
        => call.outcome = "InvalidAction"

\* C10: an updateEconomy call entered with inflation >= 0 leaves expenses
\* >= the expenses before the call
C10_ExpensesMonotone ==
    (call.op = "updateEconomy" /\ Geq(call.pre.inflation, Zero))
        => Geq(simState.expenses, call.pre.expenses)

\* C10, the case the code keeps: entered with a finite inflation >= 0
C10_ExpensesMonotoneFiniteInflation ==
    (call.op = "updateEconomy" /\ Geq(call.pre.inflation, Zero)
        /\ IsFin(call.pre.inflation))
        => Geq(simState.expenses, call.pre.expenses)

\* C11: one updateEconomy call with inflation shock s and market return r
\* leaves inflation' = max(inflation + s, 0), expenses' = expenses *
\* (1 + inflation') and cash' = cash + investment * r + salary - expenses'
C11_EconomyUpdate ==
    call.op = "updateEconomy" =>
        LET pre == call.pre
            s == randomNormal(call.z1, Fin(0), Fin(1))
            r == randomNormal(call.z2, Fin(5), Fin(10))
            inflation == MathMax(Add(pre.inflation, s), Zero)
            expenses == Mul(pre.expenses, Add(One, inflation))
            cash == Sub(Add(Add(pre.cash, Mul(pre.investment, r)), pre.salary),
                        expenses)
        IN /\ simState.inflation = inflation
           /\ simState.expenses = expenses
           /\ simState.cash = cash

\* C11 witness: s = 0 from inflation 0.05, expenses 2500, cash 10000, salary
\* 3000, investment 0 has given inflation 0.05, expenses 2625, cash 10375
C11_ScenarioC_Witness ==
    /\ call.op = "updateEconomy"
    /\ call.pre = ORIGINAL_DEFAULT_STATE
    /\ call.z1 = Zero
    /\ simState.inflation = Fin(5)
    /\ simState.expenses = Fin(2625 * Scale)
    /\ simState.cash = Fin(10375 * Scale)

\* the fields of a state other than those of the set given
Others(changed) == Fields \ changed

\* C12: applyAction with INVEST moves exactly 30% of the cash into
\* investment, so cash + investment is preserved, and changes no other field
C12_InvestMovesThirtyPercent ==
    (call.op = "applyAction" /\ call.action = "INVEST") =>
        LET pre == call.pre
            amount == Mul(pre.cash, Fin(30))
        IN /\ simState.cash = Sub(pre.cash, amount)
           /\ simState.investment = Add(pre.investment, amount)
           /\ Add(simState.cash, simState.investment) = Add(pre.cash, pre.investment)
           /\ \A f \in Others({"cash", "investment"}) : simState[f] = pre[f]

\* C12, the case the code keeps: the same from a cash that is not infinite
C12_InvestMovesThirtyPercentOfFiniteCash ==
    (call.op = "applyAction" /\ call.action = "INVEST"
        /\ call.pre.cash.t \notin {"pinf", "ninf"}) =>
        LET pre == call.pre
            amount == Mul(pre.cash, Fin(30))
        IN /\ simState.cash = Sub(pre.cash, amount)
           /\ simState.investment = Add(pre.investment, amount)
           /\ Add(simState.cash, simState.investment) = Add(pre.cash, pre.investment)
           /\ \A f \in Others({"cash", "investment"}) : simState[f] = pre[f]

\* C13: applyAction with the action UPSKILL subtracts exactly 1000 from cash
\* and multiplies salary by 1.20, and changes no other field
C13_UpskillEffect ==
    (call.op = "applyAction" /\ call.action = "UPSKILL") =>
        /\ simState.cash = Sub(call.pre.cash, Fin(1000 * Scale))
        /\ simState.salary = Mul(call.pre.salary, Fin(120))
        /\ \A f \in Others({"cash", "salary"}) : simState[f] = call.pre[f]

\* C13, the case the code keeps: the same effect under the identifier the
\* source gives the action, "UPS KILL"
C13_UpsKillEffect ==
    (call.op = "applyAction" /\ call.action = "UPS KILL") =>
        /\ simState.cash = Sub(call.pre.cash, Fin(1000 * Scale))
        /\ simState.salary = Mul(call.pre.salary, Fin(120))
        /\ \A f \in Others({"cash", "salary"}) : simState[f] = call.pre[f]

\* C14: forecastSurvival never modifies the state object passed to it: during
\* and after the call every field of the caller's state has the value it had
\* before the call, for every action, run count and horizon, and every trial
\* starts from those values with the action applied
C14_ArgumentUnchanged ==
    fc.pc # "idle" =>
        /\ fc.currentState = simState
        /\ (fc.pc = "months" /\ fc.m = 0)
            => fc.simState = applyAction(JsonClone(simState), fc.action)

\* C14, chooseBestAction: during and after the call the caller's state has
\* the values it had before the call
C14_ChooserArgumentUnchanged ==
    cb.pc # "idle" => cb.currentState = simState

\* C14 witness: a forecast of two trials of two months has returned, its
\* scratch state differs from the caller's state, the caller's is as it was
C14_ScratchChanged_Witness ==
    /\ call.op = "forecastSurvival"
    /\ fc.runs = 2
    /\ fc.horizon = 2
    /\ fc.i = 2
    /\ fc.simState # simState
    /\ fc.currentState = simState

\* the object runSimulation started from: DEFAULT_STATE when the caller gave
\* no initialState, else the caller's object
SimSource == IF sim.omitted THEN DEFAULT_STATE ELSE simState

\* C15: runSimulation never modifies its starting state: during and after a
\* run, runs ending in bankruptcy included, the caller's initialState, or
\* DEFAULT_STATE when none is given, has the field values it had before
C15_StartingStateUnchanged ==
    sim.pc # "idle" => SimSource = sim.entry

\* C15 witness: a run on the default template has ended in bankruptcy, the
\* state it worked on has changed, the template has not
C15_BankruptRun_Witness ==
    /\ sim.pc = "done"
    /\ sim.omitted
    /\ Len(sim.history) >= 2
    /\ Bankrupt(sim.history) # {}
    /\ sim.state # sim.entry
    /\ DEFAULT_STATE = sim.entry

\* C16: after any sequence of setDefaultState calls (keys the template does
\* not have and non-object arguments included), runSimulation calls and
\* writes to copies got from getDefaultState, a resetDefaultState call leaves
\* the default template equal to the original values, with no other key
C16_ResetRestoresOriginal ==
    call.op = "resetDefaultState" =>
        /\ DOMAIN DEFAULT_STATE = Fields
        /\ DEFAULT_STATE = MkState(10000 * Scale, 3000 * Scale, 2500 * Scale, 5,
                                   0, 100 * Scale)

\* C16 witness: a reset has returned on a template that had a changed cash
\* and a key of its own, after a runSimulation call that started from it
C16_ResetAfterUpdates_Witness ==
    /\ call.op = "resetDefaultState"
    /\ "debt" \in DOMAIN call.pre
    /\ call.pre.cash # ORIGINAL_DEFAULT_STATE.cash
    /\ sim.pc = "done"
    /\ sim.entry = call.pre
    /\ Len(sim.history) >= 1
    /\ DEFAULT_STATE = ORIGINAL_DEFAULT_STATE

\* C17: along every history runSimulation produces from an initial state
\* with investment >= 0, investment is >= 0 in every snapshot and never
\* decreases from one snapshot to the next
C17_InvestmentMonotone ==
    (sim.pc # "idle" /\ Geq(sim.entry.investment, Zero)) =>
        \A i \in 1..Len(sim.history) :
            /\ Geq(sim.history[i].investment, Zero)
            /\ i > 1 => Geq(sim.history[i].investment, sim.history[i - 1].investment)

\* C17, the case the code keeps: the same from an initial state whose cash
\* is > 0
C17_InvestmentMonotoneFromPositiveCash ==
    (sim.pc # "idle" /\ Geq(sim.entry.investment, Zero) /\ Gt(sim.entry.cash, Zero)) =>
        \A i \in 1..Len(sim.history) :
            /\ Geq(sim.history[i].investment, Zero)
            /\ i > 1 => Geq(sim.history[i].investment, sim.history[i - 1].investment)

SameButHappiness(a, b) ==
    \A f \in (DOMAIN a) \ {"happiness"} : a[f] = b[f]

\* C19: happiness is not used in decisions: for two states that differ only
\* in happiness and the same sampled values, forecastSurvival returns the
\* same result for every action, chooseBestAction returns the same action,
\* and the cash, salary, expenses, inflation and investment of the resulting
\* history are identical
C19_HappinessNotUsed ==
    (sim.pc # "idle" /\ twin # Idle
        /\ SameButHappiness(sim.entry, twin.sim.entry)) =>
        /\ cb.pc = twin.cb.pc
        /\ cb.pc # "idle" =>
            /\ cb.forecasts = twin.cb.forecasts
            /\ cb.result = twin.cb.result
        /\ sim.bestAction = twin.sim.bestAction
        /\ Len(sim.history) = Len(twin.sim.history)
        /\ \A i \in 1..Len(sim.history) :
            SameButHappiness(sim.history[i], twin.sim.history[i])

\* C19 witness: two runs of two months or more have returned, their states
\* differed in happiness at entry and differ in it in every snapshot, an
\* action that lowers happiness was taken, and the rest is identical
C19_TwinRuns_Witness ==
    /\ sim.pc = "done"
    /\ twin # Idle
    /\ twin.sim.pc = "done"
    /\ sim.entry.happiness # twin.sim.entry.happiness
    /\ Len(sim.history) >= 2
    /\ Len(sim.history) = Len(twin.sim.history)
    /\ \E i \in 1..Len(sim.history) : sim.history[i].action = "WORK_MORE"
    /\ \A i \in 1..Len(sim.history) :
        /\ sim.history[i].happiness # twin.sim.history[i].happiness
        /\ SameButHappiness(sim.history[i], twin.sim.history[i])

\* what one month of the loop of runSimulation does, in order
MonthOrder == <<"select", "apply", "update", "append">>

\* C20: in runSimulation each simulated month performs, in this order,
\* exactly one action selection on the state as the month found it, exactly
\* one applyAction of the selected action, exactly one updateEconomy and
\* exactly one append; the k-th snapshot has month = k, records the selected
\* action, and its fields equal the state after that month's update
C20_MonthOrder ==
    sim.pc # "idle" =>
        LET log == sim.log
            history == sim.history
        IN /\ \A k \in 1..Len(log) :
                /\ log[k].ev = MonthOrder[((k - 1) % 4) + 1]
                /\ log[k].month = ((k - 1) \div 4) + 1
                /\ log[k].ev = "select" =>
                     log[k].state = IF k = 1 THEN JsonClone(sim.entry)
                                    ELSE log[k - 1].state
                /\ log[k].ev = "apply" =>
                     /\ log[k].action = log[k - 1].action
                     /\ log[k].state = applyAction(log[k - 1].state, log[k].action)
                /\ log[k].ev = "update" =>
                     /\ log[k].action = log[k - 1].action
                     /\ \E z1 \in Z0, z2 \in Z0 :
                            log[k].state = updateEconomy(log[k - 1].state, z1, z2)
                /\ log[k].ev = "append" =>
                     /\ log[k].action = log[k - 1].action
                     /\ log[k].state = log[k - 1].state
           /\ Len(history) = Len(log) \div 4
           /\ \A k \in 1..Len(history) :
                history[k] = Snapshot(k, log[4 * k - 3].action, log[4 * k - 1].state)
           /\ sim.pc = "done" => Len(log) = 4 * Len(history)

\* C20 witness: a run of two months or more has returned, with two different
\* actions selected and as many snapshots as months done
C20_TwoMonths_Witness ==
    /\ sim.pc = "done"
    /\ Len(sim.history) >= 2
    /\ Len(sim.log) = 4 * Len(sim.history)
    /\ sim.history[1].month = 1
    /\ sim.history[2].month = 2
    /\ sim.history[1].action # sim.history[2].action
    /\ sim.history[2].cash = sim.state.cash

----------------------------------------------------------------------------
(* C21: the shape of a forecastSurvival trial *)

\* the entries of a trial made by updateEconomy, by applyAction, and by the
\* if that follows the inner loop
Updates(trial) == {k \in 1..Len(trial) : trial[k].ev = "update"}
Applies(trial) == {k \in 1..Len(trial) : trial[k].ev = "apply"}
Verdicts(trial) == {k \in 1..Len(trial) : trial[k].ev \in {"counted", "dropped"}}

\* The trial in progress starts with the one applyAction call, made on the
\* clone of currentState; economy steps follow it, none after a step that
\* left cash <= 0; the if after the loop comes last and counts the trial as
\* surviving iff cash > 0 then; with a horizon >= 1 that is iff all of the
\* horizon's steps were made and each left cash > 0.
TrialOrder(f) ==
    LET t == f.trial
        n == Len(t)
    IN n > 0 =>
        /\ Applies(t) = {1}
        /\ t[1].state = applyAction(JsonClone(f.currentState), f.action)
        /\ \A k \in Updates(t), j \in Updates(t) :
              k < j => ~Leq(t[k].state.cash, Zero)
        /\ \A k \in Verdicts(t) :
              /\ k = n
              /\ t[k].ev = "counted" <=> Gt(t[k - 1].state.cash, Zero)
              /\ f.horizon >= 1 =>
                    (t[k].ev = "counted" <=>
                        /\ Cardinality(Updates(t)) = f.horizon
                        /\ \A u \in Updates(t) : Gt(t[u].state.cash, Zero))

\* C21: in every forecastSurvival trial the action is applied exactly once,
\* before any economy step; at most horizonMonths economy steps are made; no
\* economy step follows one that left cash <= 0; the trial counts as
\* surviving iff cash > 0 when its loop ends, which for horizonMonths >= 1
\* is iff cash was > 0 after every one of the horizonMonths steps
C21_TrialShape ==
    fc.pc # "idle" =>
        /\ TrialOrder(fc)
        /\ Len(fc.trial) > 0 => Cardinality(Updates(fc.trial)) <= fc.horizon

\* C21, the case the code keeps: the same, the number of economy steps being
\* at most horizonMonths for the horizons >= 0
C21_TrialShapeFromZeroHorizon ==
    fc.pc # "idle" =>
        /\ TrialOrder(fc)
        /\ fc.horizon >= 0 => Cardinality(Updates(fc.trial)) <= fc.horizon

----------------------------------------------------------------------------
(* C22: what an economy step leaves alone *)

\* the fields updateEconomy does not assign to are the same in a and b
SameOutsideEconomy(a, b) ==
    /\ a.salary = b.salary
    /\ a.investment = b.investment
    /\ a.happiness = b.happiness

\* the salary the k-th month of a run started with
SalaryBefore(s, k) ==
    IF k = 1 THEN JsonClone(s.entry).salary ELSE s.history[k - 1].salary

\* Every updateEconomy call of the run left salary, investment and happiness
\* as they were, and the salary changed only in months whose action is one
\* of raising
FrameOfRun(s, raising) ==
    /\ \A k \in 1..Len(s.log) :
          s.log[k].ev = "update" =>
              SameOutsideEconomy(s.log[k].state, s.log[k - 1].state)
    /\ \A k \in 1..Len(s.history) :
          s.history[k].salary # SalaryBefore(s, k) =>
              s.history[k].action \in raising

\* C22: updateEconomy changes only inflation, expenses and cash (salary,
\* investment and happiness are unchanged by every economy step), so along
\* any history salary changes only in months whose action is WORK_MORE or
\* UPSKILL
C22_SalaryOnlyByActions ==
    sim.pc # "idle" => FrameOfRun(sim, {"WORK_MORE", "UPSKILL"})

\* C22 with the identifier the source uses for the fourth action
C22_SalaryOnlyByActionsOfSource ==
    sim.pc # "idle" => FrameOfRun(sim, {"WORK_MORE", "UPS KILL"})

\* C22, the call alone: updateEconomy returns with salary, investment and
\* happiness as it found them
C22_EconomyFrame ==
    call.op = "updateEconomy" => SameOutsideEconomy(simState, call.pre)

----------------------------------------------------------------------------
(* C23: the action of a snapshot and the forecasts shown with it *)

\* the places of action in a list of per-action forecasts
PlacesOf(action, forecasts) ==
    {k \in 1..Len(forecasts) : forecasts[k].action = action}

\* C23: in the interactive stepper the action recorded in each snapshot is
\* the action with the greatest utility among the per-action forecasts
\* stored in that same snapshot
C23_ActionIsBestOfShownForecasts ==
    app.pc # "idle" =>
        \A i \in 1..Len(app.history) :
            LET h == app.history[i]
            IN /\ PlacesOf(h.action, h.forecasts) # {}
               /\ \A k \in PlacesOf(h.action, h.forecasts) :
                     \A j \in 1..Len(h.forecasts) :
                        Geq(h.forecasts[k].utility, h.forecasts[j].utility)

----------------------------------------------------------------------------
(* C24: the history the stepper displays *)

\* once a step has ended with cash <= 0 or month >= months, playing is off
\* and no interval is set
StopsPlaying(a) ==
    (a.monthRef > 0 /\ stepStops(a.simStateRef, a.monthRef, a.months)) =>
        (~a.isPlaying /\ a.intervalRef = "null")

\* C24: in the interactive stepper, under any sequence of Play, Pause, Step,
\* Reset and timer-tick events, the displayed history never holds more than
\* months snapshots and never holds a snapshot after one whose cash <= 0;
\* once a step ends with cash <= 0 or month >= months, playing is switched
\* off and the interval timer is cleared
C24_HistoryEndsWithTheRun ==
    app.pc = "ready" =>
        /\ Len(app.history) <= app.months
        /\ \A i \in Bankrupt(app.history) : i = Len(app.history)
        /\ StopsPlaying(app)

\* C24, the part the code keeps: a step that ends with cash <= 0 or
\* month >= months leaves playing off and the interval cleared, and the
\* snapshots are numbered 1, 2, .. in the order they were appended
C24_StopSwitchesPlayingOff ==
    app.pc = "ready" =>
        /\ StopsPlaying(app)
        /\ Len(app.history) = app.monthRef
        /\ \A i \in 1..Len(app.history) : app.history[i].month = i

----------------------------------------------------------------------------
(* C25: algo.js and script.js *)

\* what algo.js printed for a month and the snapshot runSimulation recorded
\* say the same: the month, the action, the state
SameMonth(line, snapshot) ==
    snapshot = Snapshot(line.month, line.action, line.state)

\* C25: fed the same sequence of sampled random values, the main loop of
\* algo.js and runSimulation of script.js, given the same number of months
\* and of runs and started from the unmodified default state, choose the
\* same action every month, pass through the same states, and stop in the
\* same month
C25_SameRun ==
    algo.pc # "idle" =>
        /\ algo.state = sim.state
        /\ algo.month = sim.month
        /\ algo.rng = rng
        /\ Len(algo.printed) = Len(sim.history)
        /\ \A i \in 1..Len(algo.printed) : SameMonth(algo.printed[i], sim.history[i])
        /\ algo.pc = "done" <=> sim.pc = "done"

\* C25 witness: both have ended in month 2 of 3, after a month that left
\* cash <= 0, having chosen the same action in each month
C25_StoppedTogether_Witness ==
    /\ algo.pc = "done"
    /\ sim.pc = "done"
    /\ sim.months = 3
    /\ Len(sim.history) = 2
    /\ Len(algo.printed) = 2
    /\ Leq(algo.state.cash, Zero)
    /\ \A i \in 1..2 : algo.printed[i].action = sim.history[i].action
    /\ algo.printed[1].action \in ActionSet

====
